---- MODULE Spec2Model ----
(***************************************************************************)
(* A model of app.py: the four calendar tools (today, list_events_tool,    *)
(* find_available_slots_tool, create_event_tool), the calendar backend     *)
(* they call, the LangGraph loop compiled at the end of the graph section  *)
(* and the Streamlit turn handler that runs it.                            *)
(*                                                                         *)
(* Instants are integers ("ticks"): TicksPerMinute ticks make a minute and *)
(* DayTicks ticks make a day, so that 23:59:59 is the last tick of a day.  *)
(*                                                                         *)
(* Specifications: SpecCreate, SpecList and SpecSlots call one tool each;  *)
(* SpecOrder and SpecCrowded call find_available_slots_tool on a backend   *)
(* that answers in any order and on a calendar of about maxResults events; *)
(* SpecDispatch runs the tools node thread by thread; Spec runs the graph  *)
(* and the turn handler.                                                   *)
(***************************************************************************)
EXTENDS Integers, Sequences, FiniteSets, TLC

VARIABLES
    now,        \* the instant datetime.now(UTC) returns
    store,      \* the events the calendar backend holds, in start order
    op,         \* the tool call made last: its name and arguments
    out,        \* what that call returned (or that it raised)
    calls,      \* the backend requests that call made, in order
    workers,    \* the tool calls that threads of tools nodes are running
    conversation_history,   \* st.session_state.conversation_history
    tool_outputs,           \* st.session_state.tool_outputs
    pc,         \* where the turn is: "idle", a node of the graph, "END",
                \* "raised" (an exception is leaving graph.invoke) or "done"
    messages,   \* the graph state's messages
    today_info, \* the graph state's today_info
    step,       \* the supersteps graph.invoke has run in this turn
    error,      \* the exception that ended graph.invoke, "" if none
    inputs      \* the user inputs handled so far

toolVars == <<now, store, op, out, calls, workers>>

turnVars == <<conversation_history, tool_outputs, pc, messages, today_info,
              step, error, inputs>>

vars == <<now, store, op, out, calls, workers, conversation_history,
          tool_outputs, pc, messages, today_info, step, error, inputs>>

----------------------------------------------------------------------------
(* Bounds of the model. *)

MaxTime == 4            \* the instants of SpecCreate and SpecList are 0..MaxTime
SlotMaxTime == 8        \* the instants of SpecSlots are 0..SlotMaxTime
DayTicks == 6           \* ticks in a day
TicksPerMinute == 2     \* ticks in a minute
MaxEvents == 2          \* events the backend holds initially
MaxCreated == 2         \* events created in one behaviour
MaxMinDuration == 2     \* largest min_duration asked for, in minutes
MaxInputs == 2          \* user inputs in one behaviour

Times == 0..MaxTime

SlotTimes == 0..SlotMaxTime

Summaries == {"standup", "review"}

\* A timezone offset of an ISO string, in ticks; a string without an offset
\* is read by astimezone() with the host's offset, one of these as well.
Offsets == {0, 1}

Max(a, b) == IF a >= b THEN a ELSE b

Min(a, b) == IF a <= b THEN a ELSE b

SeqsUpTo(S, n) == UNION {[1..k -> S] : k \in 0..n}

----------------------------------------------------------------------------
(* Values. *)

\* An entry of the backend. kind = "dateTime" for a timed event and "date"
\* for an all-day event, whose start and end carry only a 'date' field;
\* titled = FALSE for an event without a 'summary' field.
RawEvent(kind, start, end, summary, titled) ==
    [kind |-> kind, start |-> start, end |-> end,
     summary |-> summary, titled |-> titled]

\* The timed events within the instants T, titled from S.
TimedEvents(T, S) ==
    {RawEvent("dateTime", p[1], p[2], sm, TRUE) :
        p \in {q \in T \X T : q[1] < q[2]}, sm \in S}

\* The all-day events of the days that the instants T touch.
AllDayEvents(T, S) ==
    {RawEvent("date", d * DayTicks, (d + 1) * DayTicks, sm, TRUE) :
        d \in {t \div DayTicks : t \in T}, sm \in S}

UntitledEvents ==
    {RawEvent("dateTime", s, s + 1, "", FALSE) : s \in 0..(MaxTime - 1)}

\* The result of a tool call. kind is "error" (an {"error": msg} payload),
\* "success", "events" (a list of events), "text" (a message string),
\* "slots" (a list of slots), "raise" (the exception left the function) or
\* "none" (no call yet).
Out(kind, msg, items) == [kind |-> kind, msg |-> msg, items |-> items]

NoOut == Out("none", "", <<>>)

\* One request to the backend: whether it succeeded and the entries it
\* answered with.
Call(api, ok, resp) == [api |-> api, ok |-> ok, resp |-> resp]

\* A tool call: the tool's name and its arguments.
ToolCall(name, args) == [name |-> name, args |-> args]

NoCall == ToolCall("none", <<>>)

\* What a tool call leaves behind: its result, the requests it made and
\* the backend's content afterwards.
Done(o, cs, st) == [out |-> o, calls |-> cs, store |-> st]

\* A message of the graph state or of the Reasoner: role is "human",
\* "system", "ai" or "tool"; tool_calls are the requests of an ai message;
\* tool is the tool a tool message answers for.
Message(role, content, tool_calls, tool) ==
    [role |-> role, content |-> content, tool_calls |-> tool_calls,
     tool |-> tool]

\* An entry of st.session_state.conversation_history.
Entry(role, content) == [role |-> role, content |-> content]

NoInfo == [role |-> "none", day |-> 0]

\* The session state when the script first runs.
InitTurn ==
    /\ conversation_history = <<>>
    /\ tool_outputs = <<>>
    /\ pc = "idle"
    /\ messages = <<>>
    /\ today_info = NoInfo
    /\ step = 0
    /\ error = ""
    /\ inputs = 0

----------------------------------------------------------------------------
(* The calendar backend: calendar_service.events().list / .insert. *)

\* An optional instant: a request parameter that may be left out.
Some(t) == [has |-> TRUE, t |-> t]

None == [has |-> FALSE, t |-> 0]

RECURSIVE InsertByStart(_, _)
\* ev put into the start-ordered sequence s, after the entries that start
\* no later (entries with equal starts keep their insertion order).
InsertByStart(s, ev) ==
    IF s = <<>> THEN <<ev>>
    ELSE IF ev.start < Head(s).start THEN <<ev>> \o s
    ELSE <<Head(s)>> \o InsertByStart(Tail(s), ev)

RECURSIVE SortByStart(_)
\* orderBy='startTime'
SortByStart(s) ==
    IF s = <<>> THEN <<>>
    ELSE InsertByStart(SortByStart(SubSeq(s, 1, Len(s) - 1)), s[Len(s)])

maxResults == 20

FirstN(s, n) == SubSeq(s, 1, Min(Len(s), n))

\* events().list(timeMin, timeMax, maxResults, singleEvents, orderBy):
\* the entries that end after timeMin and start before timeMax, ordered by
\* start, at most maxResults of them.
events_list(st, timeMin, timeMax) ==
    FirstN(SelectSeq(SortByStart(st),
                     LAMBDA ev : /\ (timeMin.has => ev.end > timeMin.t)
                                 /\ (timeMax.has => ev.start < timeMax.t)),
           maxResults)

\* events().insert(body): the backend with the event added.
events_insert(st, ev) == InsertByStart(st, ev)

\* The contents the backend can have: at most n events of S.
Stores(S, n) ==
    {st \in SeqsUpTo(S, n) :
        \A i \in 1..(Len(st) - 1) : st[i].start <= st[i + 1].start}

----------------------------------------------------------------------------
(* create_event_tool *)

\* An ISO-8601 string: one datetime.fromisoformat rejects (ok = FALSE), or
\* a wall-clock reading with its offset.
IsoTime(wall, off) == [ok |-> TRUE, wall |-> wall, off |-> off]

BadIso == [ok |-> FALSE, wall |-> 0, off |-> 0]

IsoTimes == {BadIso} \cup {IsoTime(w, o) : w \in Times, o \in Offsets}

\* datetime.fromisoformat(s).astimezone(UTC): the instant the string names.
astimezoneUTC(s) == s.wall - s.off

ErrEndBeforeStart == "End time must be after start time"

ErrPast == "Cannot create events in the past"

ErrException == "str(e)"

\* create_event_tool with the two validations in the other order.
create_event_tool_PastFirst(summary, start_time, end_time, clock, st, backendOk) ==
    IF ~start_time.ok \/ ~end_time.ok
    THEN Done(Out("error", ErrException, <<>>), <<>>, st)
    ELSE LET start == astimezoneUTC(start_time)
             end == astimezoneUTC(end_time)
             event == RawEvent("dateTime", start, end, summary, TRUE)
         IN  IF start < clock
             THEN Done(Out("error", ErrPast, <<>>), <<>>, st)
             ELSE IF start >= end
             THEN Done(Out("error", ErrEndBeforeStart, <<>>), <<>>, st)
             ELSE IF backendOk
             THEN Done(Out("success", "", <<event>>),
                       <<Call("insert", TRUE, <<event>>)>>,
                       events_insert(st, event))
             ELSE Done(Out("error", ErrException, <<>>),
                       <<Call("insert", FALSE, <<>>)>>, st)

\* create_event_tool sending the insert a second time when it fails.
create_event_tool_Retry(summary, start_time, end_time, clock, st, backendOk) ==
    IF ~start_time.ok \/ ~end_time.ok
    THEN Done(Out("error", ErrException, <<>>), <<>>, st)
    ELSE LET start == astimezoneUTC(start_time)
             end == astimezoneUTC(end_time)
             event == RawEvent("dateTime", start, end, summary, TRUE)
         IN  IF start >= end
             THEN Done(Out("error", ErrEndBeforeStart, <<>>), <<>>, st)
             ELSE IF start < clock
             THEN Done(Out("error", ErrPast, <<>>), <<>>, st)
             ELSE IF backendOk
             THEN Done(Out("success", "", <<event>>),
                       <<Call("insert", TRUE, <<event>>)>>,
                       events_insert(st, event))
             ELSE Done(Out("success", "", <<event>>),
                       <<Call("insert", FALSE, <<>>),
                         Call("insert", TRUE, <<event>>)>>,
                       events_insert(st, event))

create_event_tool(summary, start_time, end_time, clock, st, backendOk) ==
    IF ~start_time.ok \/ ~end_time.ok
    THEN Done(Out("error", ErrException, <<>>), <<>>, st)
    ELSE LET start == astimezoneUTC(start_time)
             end == astimezoneUTC(end_time)
             event == RawEvent("dateTime", start, end, summary, TRUE)
         IN  IF start >= end
             THEN Done(Out("error", ErrEndBeforeStart, <<>>), <<>>, st)
             ELSE IF start < clock
             THEN Done(Out("error", ErrPast, <<>>), <<>>, st)
             ELSE IF backendOk
             THEN Done(Out("success", "", <<event>>),
                       <<Call("insert", TRUE, <<event>>)>>, events_insert(st, event))
             ELSE Done(Out("error", ErrException, <<>>),
                       <<Call("insert", FALSE, <<>>)>>, st)

CreateArgs(summary, start_time, end_time) ==
    [summary |-> summary, start_time |-> start_time, end_time |-> end_time]

\* The caller takes the result of the last tool call; the next call can
\* be made.
Return ==
    /\ op # NoCall
    /\ op' = NoCall
    /\ out' = NoOut
    /\ calls' = <<>>
    /\ UNCHANGED <<now, store, workers>>
    /\ UNCHANGED turnVars

\* One call of create_event_tool.
CreateEvent ==
    /\ op = NoCall
    /\ Len(store) < MaxCreated
    /\ \E summary \in Summaries, start_time \in IsoTimes,
          end_time \in IsoTimes, backendOk \in BOOLEAN :
          LET r == create_event_tool(summary, start_time, end_time,
                                     now, store, backendOk)
          IN  /\ op' = ToolCall("create_event_tool",
                                CreateArgs(summary, start_time, end_time))
              /\ out' = r.out
              /\ calls' = r.calls
              /\ store' = r.store
    /\ UNCHANGED <<now, workers>>
    /\ UNCHANGED turnVars

InitCreate ==
    /\ now \in Times
    /\ store = <<>>
    /\ op = NoCall
    /\ out = NoOut
    /\ calls = <<>>
    /\ workers = <<>>
    /\ InitTurn

NextCreate == CreateEvent \/ Return

SpecCreate == InitCreate /\ [][NextCreate]_vars

----------------------------------------------------------------------------
(* list_events_tool *)

\* A time parameter as text. form is "Z" or "plus" for an RFC 3339 text
\* that ends in Z or in +hh:mm, and "space" for one whose '+' has become a
\* blank, which the backend rejects. has = FALSE: no such parameter.
TimeText(t, form) == [has |-> TRUE, t |-> t, form |-> form]

NoText == [has |-> FALSE, t |-> 0, form |-> "Z"]

QueryTimes == {0, MaxTime}

QueryTexts == {NoText} \cup {TimeText(t, f) : t \in QueryTimes, f \in {"Z", "plus"}}

\* The query argument: None, "", a text without '=', or a text of
\* key=value pairs of which start_time and end_time are looked at.
Query(kind, start_time, end_time) ==
    [kind |-> kind, start_time |-> start_time, end_time |-> end_time]

Queries ==
    {Query(k, NoText, NoText) : k \in {"none", "empty", "noeq"}}
    \cup {Query("kv", a, b) : a \in QueryTexts, b \in QueryTexts}

\* parse_qs on one value: a literal '+' is decoded as a blank.
parse_qs_value(v) ==
    IF v.has /\ v.form = "plus" THEN TimeText(v.t, "space") ELSE v

\* {k: v[0] for k, v in parse_qs(query).items()}
parse_qs(query) ==
    [start_time |-> parse_qs_value(query.start_time),
     end_time |-> parse_qs_value(query.end_time)]

\* params.get(key, default)
get(v, default) == IF v.has THEN v ELSE default

SevenDays == 7 * DayTicks

\* now.isoformat() of an aware UTC datetime ends in +00:00.
isoformat(t) == TimeText(t, "plus")

\* The timeMin and timeMax that list_events_tool sends.
time_range(query, clock) ==
    LET time_min == isoformat(clock)
        time_max == isoformat(clock + SevenDays)
    IN  IF query.kind = "kv"
        THEN [time_min |-> get(parse_qs(query).start_time, time_min),
              time_max |-> get(parse_qs(query).end_time, time_max)]
        ELSE [time_min |-> time_min, time_max |-> time_max]

\* The backend answers 400 to a time it cannot read and to an empty range.
list_request_ok(time_min, time_max) ==
    /\ time_min.form # "space"
    /\ time_max.form # "space"
    /\ time_min.t < time_max.t

\* event['start'].get('dateTime', event['start'].get('date'))
start_of(ev) == [kind |-> ev.kind, t |-> ev.start]

end_of(ev) == [kind |-> ev.kind, t |-> ev.end]

event_key(ev) == <<start_of(ev), ev.summary>>

ListedEvent(ev) ==
    [start |-> start_of(ev), summary |-> ev.summary, end |-> end_of(ev)]

RECURSIVE unique_events_KeepLast(_, _, _, _)
\* The deduplication loop letting a later duplicate replace the kept one.
unique_events_KeepLast(events, i, seen, unique) ==
    IF i > Len(events) THEN [raised |-> FALSE, unique |-> unique]
    ELSE IF ~events[i].titled THEN [raised |-> TRUE, unique |-> unique]
    ELSE IF event_key(events[i]) \notin seen
    THEN unique_events_KeepLast(events, i + 1,
                                seen \cup {event_key(events[i])},
                                Append(unique, ListedEvent(events[i])))
    ELSE unique_events_KeepLast(events, i + 1, seen,
             [k \in DOMAIN unique |->
                 IF <<unique[k].start, unique[k].summary>> = event_key(events[i])
                 THEN ListedEvent(events[i]) ELSE unique[k]])

RECURSIVE unique_events(_, _, _, _)
\* The deduplication loop from its i-th event on: raised = TRUE when
\* event['summary'] fails on an event without a title.
unique_events(events, i, seen, unique) ==
    IF i > Len(events) THEN [raised |-> FALSE, unique |-> unique]
    ELSE IF ~events[i].titled THEN [raised |-> TRUE, unique |-> unique]
    ELSE IF event_key(events[i]) \notin seen
    THEN unique_events(events, i + 1, seen \cup {event_key(events[i])},
                       Append(unique, ListedEvent(events[i])))
    ELSE unique_events(events, i + 1, seen, unique)

MsgNoEvents == "No events found between time_min and time_max"

MsgFetchError == "Error fetching events: str(e)"

list_events_tool(query, clock, st, backendOk) ==
    LET r == time_range(query, clock)
        ok == backendOk /\ list_request_ok(r.time_min, r.time_max)
        events == events_list(st, Some(r.time_min.t), Some(r.time_max.t))
        u == unique_events(events, 1, {}, <<>>)
    IN  IF ~ok
        THEN Done(Out("text", MsgFetchError, <<>>),
                  <<Call("list", FALSE, <<>>)>>, st)
        ELSE IF u.raised
        THEN Done(Out("text", MsgFetchError, <<>>),
                  <<Call("list", TRUE, events)>>, st)
        ELSE IF u.unique = <<>>
        THEN Done(Out("text", MsgNoEvents, <<>>),
                  <<Call("list", TRUE, events)>>, st)
        ELSE Done(Out("events", "", u.unique),
                  <<Call("list", TRUE, events)>>, st)

\* One call of list_events_tool.
ListEvents ==
    /\ op = NoCall
    /\ \E query \in Queries, backendOk \in BOOLEAN :
          LET r == list_events_tool(query, now, store, backendOk)
          IN  /\ op' = ToolCall("list_events_tool", query)
              /\ out' = r.out
              /\ calls' = r.calls
              /\ store' = r.store
    /\ UNCHANGED <<now, workers>>
    /\ UNCHANGED turnVars

ListStoreEvents ==
    TimedEvents(Times, Summaries) \cup UntitledEvents
    \cup AllDayEvents(Times, {"standup"})

InitList ==
    /\ now \in Times
    /\ store \in Stores(ListStoreEvents, MaxEvents)
    /\ op = NoCall
    /\ out = NoOut
    /\ calls = <<>>
    /\ workers = <<>>
    /\ InitTurn

NextList == ListEvents \/ Return

SpecList == InitList /\ [][NextList]_vars

----------------------------------------------------------------------------
(* find_available_slots_tool *)

\* int(x / y) for y > 0: the quotient rounded towards zero.
int_div(x, y) == IF x >= 0 THEN x \div y ELSE -((-x) \div y)

\* timedelta(minutes=m), in ticks
minutes(m) == m * TicksPerMinute

Slot(start, end) ==
    [start |-> start, end |-> end,
     duration_minutes |-> int_div(end - start, TicksPerMinute)]

\* now.replace(hour=23, minute=59, second=59): the last tick of the day.
end_of_day(clock) == (clock \div DayTicks) * DayTicks + DayTicks - 1

RECURSIVE sweep_IgnoreMin(_, _, _, _, _)
\* The loop emitting every gap, whatever its length.
sweep_IgnoreMin(events, i, last_end, available_slots, min_duration) ==
    IF i > Len(events)
    THEN [raised |-> FALSE, last_end |-> last_end, slots |-> available_slots]
    ELSE IF events[i].kind # "dateTime"
    THEN [raised |-> TRUE, last_end |-> last_end, slots |-> available_slots]
    ELSE LET start == events[i].start
             end == events[i].end
         IN  sweep_IgnoreMin(events, i + 1, Max(last_end, end),
                   IF start > last_end
                   THEN Append(available_slots, Slot(last_end, start))
                   ELSE available_slots,
                   min_duration)

RECURSIVE sweep_LastEnd(_, _, _, _, _)
\* The loop with last_end = end in place of max(last_end, end).
sweep_LastEnd(events, i, last_end, available_slots, min_duration) ==
    IF i > Len(events)
    THEN [raised |-> FALSE, last_end |-> last_end, slots |-> available_slots]
    ELSE IF events[i].kind # "dateTime"
    THEN [raised |-> TRUE, last_end |-> last_end, slots |-> available_slots]
    ELSE LET start == events[i].start
             end == events[i].end
         IN  sweep_LastEnd(events, i + 1, end,
                   IF start > last_end + minutes(min_duration)
                   THEN Append(available_slots, Slot(last_end, start))
                   ELSE available_slots,
                   min_duration)

RECURSIVE sweep(_, _, _, _, _)
\* The loop over the fetched events from the i-th on: raised = TRUE when
\* event['start']['dateTime'] fails on an all-day event.
sweep(events, i, last_end, available_slots, min_duration) ==
    IF i > Len(events)
    THEN [raised |-> FALSE, last_end |-> last_end, slots |-> available_slots]
    ELSE IF events[i].kind # "dateTime"
    THEN [raised |-> TRUE, last_end |-> last_end, slots |-> available_slots]
    ELSE LET start == events[i].start
             end == events[i].end
         IN  sweep(events, i + 1, Max(last_end, end),
                   IF start > last_end + minutes(min_duration)
                   THEN Append(available_slots, Slot(last_end, start))
                   ELSE available_slots,
                   min_duration)

\* find_available_slots_tool from the backend's answer on: the loop over
\* the fetched events, then the remaining time until the end of the day.
available_slots(events, min_duration, clock) ==
    LET w == sweep(events, 1, clock, <<>>, min_duration)
        end_of_day_ == end_of_day(clock)
    IN  IF w.raised
        THEN Out("raise", "", <<>>)
        ELSE Out("slots", "",
                 IF end_of_day_ > w.last_end + minutes(min_duration)
                 THEN Append(w.slots, Slot(w.last_end, end_of_day_))
                 ELSE w.slots)

find_available_slots_tool(min_duration, clock, st, backendOk) ==
    LET events == events_list(st, Some(clock), None)
    IN  IF ~backendOk
        THEN Done(Out("raise", "", <<>>), <<Call("list", FALSE, <<>>)>>, st)
        ELSE Done(available_slots(events, min_duration, clock),
                  <<Call("list", TRUE, events)>>, st)

MinDurations == (-1)..MaxMinDuration

\* One call of find_available_slots_tool.
FindAvailableSlots ==
    /\ op = NoCall
    /\ \E min_duration \in MinDurations, backendOk \in BOOLEAN :
          LET r == find_available_slots_tool(min_duration, now, store, backendOk)
          IN  /\ op' = ToolCall("find_available_slots_tool", min_duration)
              /\ out' = r.out
              /\ calls' = r.calls
              /\ store' = r.store
    /\ UNCHANGED <<now, workers>>
    /\ UNCHANGED turnVars

SlotStoreEvents ==
    TimedEvents(SlotTimes, {"standup"}) \cup AllDayEvents(SlotTimes, {"standup"})

InitSlots ==
    /\ now \in SlotTimes
    /\ store \in Stores(SlotStoreEvents, MaxEvents)
    /\ op = NoCall
    /\ out = NoOut
    /\ calls = <<>>
    /\ workers = <<>>
    /\ InitTurn

NextSlots == FindAvailableSlots \/ Return

SpecSlots == InitSlots /\ [][NextSlots]_vars

\* The orders a sequence can be put in.
Perms(s) ==
    {[i \in DOMAIN s |-> s[f[i]]] :
        f \in {g \in [DOMAIN s -> DOMAIN s] :
                  \A i \in DOMAIN s : \A j \in DOMAIN s : g[i] = g[j] => i = j}}

\* One call of find_available_slots_tool on a backend that answers the
\* list request with the matching events in an order of its own: the
\* function takes the items as they come.
FindAvailableSlotsAnyOrder ==
    /\ op = NoCall
    /\ \E min_duration \in MinDurations,
          events \in Perms(events_list(store, Some(now), None)) :
          /\ op' = ToolCall("find_available_slots_tool", min_duration)
          /\ out' = available_slots(events, min_duration, now)
          /\ calls' = <<Call("list", TRUE, events)>>
    /\ UNCHANGED <<now, store, workers>>
    /\ UNCHANGED turnVars

InitOrder ==
    /\ now \in Times
    /\ store \in Stores(TimedEvents(Times, {"standup"}), MaxEvents)
    /\ op = NoCall
    /\ out = NoOut
    /\ calls = <<>>
    /\ workers = <<>>
    /\ InitTurn

NextOrder == FindAvailableSlotsAnyOrder \/ Return

SpecOrder == InitOrder /\ [][NextOrder]_vars

MaxExtra == 1           \* events the backend holds beyond maxResults

\* A calendar of n events a and the event b, which starts no earlier.
Crowded(n, a, b) == [i \in 1..(n + 1) |-> IF i <= n THEN a ELSE b]

\* The calendars of about maxResults events: some below the fetch limit,
\* some at it and some beyond it.
CrowdedStores ==
    {Crowded(n, p[1], p[2]) :
        n \in (maxResults - 2)..(maxResults + MaxExtra - 1),
        p \in {q \in TimedEvents(Times, {"standup"})
                      \X TimedEvents(Times, {"standup"}) :
                   q[1].start <= q[2].start}}

InitCrowded ==
    /\ now \in Times
    /\ store \in CrowdedStores
    /\ op = NoCall
    /\ out = NoOut
    /\ calls = <<>>
    /\ workers = <<>>
    /\ InitTurn

SpecCrowded == InitCrowded /\ [][NextSlots]_vars

----------------------------------------------------------------------------
(* The graph: inject_today_info -> inject_additional_message ->            *)
(* process_input -> (tools -> process_input)* -> END, and the turn handler *)
(* that runs it on a user input.                                           *)

\* today(): the date and weekday of the clock's day, as a system message.
today(clock) == [role |-> "system", day |-> clock \div DayTicks]

UserTexts == {"What events do I have today?"}

\* The requests the Reasoner makes in this model.
ListCall == ToolCall("list_events_tool", Query("none", NoText, NoText))

SlotsCall == ToolCall("find_available_slots_tool", 1)

CreateCall ==
    ToolCall("create_event_tool",
             CreateArgs("standup", IsoTime(1, 0), IsoTime(2, 0)))

ToolBatches == {<<ListCall>>, <<SlotsCall, CreateCall>>}

HasCreate(batch) ==
    \E i \in DOMAIN batch : batch[i].name = "create_event_tool"

\* The default recursion_limit of graph.invoke: the supersteps one
\* invocation may run.
RecursionLimit == 25

\* The conversion of the earlier history to LangChain messages: a user
\* entry becomes a HumanMessage, any other entry a SystemMessage.
to_messages(history) ==
    [i \in DOMAIN history |->
        IF history[i].role = "user"
        THEN Message("human", history[i].content, <<>>, "")
        ELSE Message("system", history[i].content, <<>>, "")]

\* A user input arrives: the handler records it and starts the graph on
\* the converted history followed by the input.
UserInput ==
    /\ pc \in {"idle", "done"}
    /\ inputs < MaxInputs
    /\ \E user_input \in UserTexts :
          /\ conversation_history' =
                 Append(conversation_history, Entry("user", user_input))
          /\ messages' = to_messages(conversation_history)
                          \o <<Message("human", user_input, <<>>, "")>>
    /\ pc' = "inject_today_info"
    /\ today_info' = NoInfo
    /\ step' = 0
    /\ error' = ""
    /\ inputs' = inputs + 1
    /\ UNCHANGED tool_outputs
    /\ UNCHANGED toolVars

provide_today_info ==
    /\ pc = "inject_today_info"
    /\ step < RecursionLimit
    /\ today_info' = today(now)
    /\ pc' = "inject_additional_message"
    /\ step' = step + 1
    /\ UNCHANGED <<conversation_history, tool_outputs, messages, error, inputs>>
    /\ UNCHANGED toolVars

SchedulingPolicy == "Your role is to schedule events based on user instructions."

inject_additional_system_message ==
    /\ pc = "inject_additional_message"
    /\ step < RecursionLimit
    /\ messages' = Append(messages, Message("system", SchedulingPolicy, <<>>, ""))
    /\ pc' = "process_input"
    /\ step' = step + 1
    /\ UNCHANGED <<conversation_history, tool_outputs, today_info, error, inputs>>
    /\ UNCHANGED toolVars

\* tools_condition: to the tools node when the last message carries tool
\* calls, else to END.
tools_condition(msg) == IF msg.tool_calls # <<>> THEN "tools" ELSE "END"

\* The replies the Reasoner can give: a final answer, or a batch of requests.
Replies ==
    {Message("ai", "Here is your schedule.", <<>>, "")}
    \cup {Message("ai", "", batch, "") :
             batch \in {b \in ToolBatches : HasCreate(b) => Len(store) <= MaxCreated}}

\* call_llm_model: the Reasoner answers on the accumulated messages, or
\* the call to it fails.
call_llm_model ==
    /\ pc = "process_input"
    /\ step < RecursionLimit
    /\ \/ \E reply \in Replies :
             /\ messages' = Append(messages, reply)
             /\ pc' = tools_condition(reply)
             /\ error' = error
       \/ /\ messages' = messages
          /\ pc' = "raised"
          /\ error' = "llm_with_tools.invoke failed"
    /\ step' = step + 1
    /\ UNCHANGED <<conversation_history, tool_outputs, today_info, inputs>>
    /\ UNCHANGED toolVars

\* One request run by the tools node on the backend st.
run_tool(call, clock, st) ==
    IF call.name = "list_events_tool"
    THEN list_events_tool(call.args, clock, st, TRUE)
    ELSE IF call.name = "find_available_slots_tool"
    THEN find_available_slots_tool(call.args, clock, st, TRUE)
    ELSE IF call.name = "create_event_tool"
    THEN create_event_tool(call.args.summary, call.args.start_time,
                           call.args.end_time, clock, st, TRUE)
    ELSE Done(Out("today", "", <<>>), <<>>, st)

ToolError == "Error: repr(e)"

\* The ToolMessage the tools node makes of a result; an exception of the
\* tool becomes an error message.
tool_message(call, o) ==
    IF o.kind = "raise"
    THEN Message("tool", ToolError, <<>>, call.name)
    ELSE Message("tool", o.kind, <<>>, call.name)

RECURSIVE run_batch(_, _, _, _, _)
\* The requests of a batch from the i-th on, in their order.
run_batch(batch, i, clock, st, results) ==
    IF i > Len(batch) THEN [store |-> st, results |-> results]
    ELSE LET r == run_tool(batch[i], clock, st)
         IN  run_batch(batch, i + 1, clock, r.store,
                       Append(results, tool_message(batch[i], r.out)))

\* The tools node: every request of the last message is run and answered
\* with a ToolMessage. ToolNode(tools=tools) leaves handle_tool_errors at
\* the default of the installed langgraph: an exception of a tool is
\* answered with an error ToolMessage where the default handles every
\* exception, and leaves the node, and so graph.invoke, where the default
\* handles only invalid arguments.
tool_node ==
    /\ pc = "tools"
    /\ step < RecursionLimit
    /\ LET r == run_batch(messages[Len(messages)].tool_calls, 1, now, store, <<>>)
       IN  /\ store' = r.store
           /\ \/ /\ messages' = messages \o r.results
                 /\ pc' = "process_input"
                 /\ error' = error
              \/ /\ \E i \in DOMAIN r.results : r.results[i].content = ToolError
                 /\ messages' = messages
                 /\ pc' = "raised"
                 /\ error' = "tool exception"
    /\ step' = step + 1
    /\ UNCHANGED <<conversation_history, tool_outputs, today_info, inputs>>
    /\ UNCHANGED <<now, op, out, calls, workers>>

\* graph.invoke has run recursion_limit supersteps and the graph has not
\* reached END.
GraphRecursionError ==
    /\ pc \in {"inject_today_info", "inject_additional_message",
                "process_input", "tools"}
    /\ step >= RecursionLimit
    /\ pc' = "raised"
    /\ error' = "GraphRecursionError"
    /\ UNCHANGED <<conversation_history, tool_outputs, messages, today_info,
                   step, inputs>>
    /\ UNCHANGED toolVars

\* The tool_outputs the handler builds from a message's tool calls.
tool_outputs_of(msg) ==
    [i \in DOMAIN msg.tool_calls |->
        [tool_name |-> msg.tool_calls[i].name,
         input |-> msg.tool_calls[i].args,
         output |-> "None"]]

\* graph.invoke returned: the handler records the last message as the
\* assistant's reply and that message's tool calls as the tool outputs.
FinishTurn ==
    /\ pc = "END"
    /\ conversation_history' =
           Append(conversation_history,
                  Entry("assistant", messages[Len(messages)].content))
    /\ tool_outputs' = tool_outputs_of(messages[Len(messages)])
    /\ pc' = "done"
    /\ UNCHANGED <<messages, today_info, step, error, inputs>>
    /\ UNCHANGED toolVars

ErrorPrefix == "Error processing request: "

\* The except branch without the append of the error reply.
FailTurn_NoReply ==
    /\ pc = "raised"
    /\ pc' = "done"
    /\ UNCHANGED <<conversation_history, tool_outputs, messages, today_info,
                   step, error, inputs>>
    /\ UNCHANGED toolVars

\* graph.invoke raised: the handler records the error as the assistant's
\* reply.
FailTurn ==
    /\ pc = "raised"
    /\ conversation_history' =
           Append(conversation_history, Entry("assistant", <<ErrorPrefix, error>>))
    /\ pc' = "done"
    /\ UNCHANGED <<tool_outputs, messages, today_info, step, error, inputs>>
    /\ UNCHANGED toolVars

\* The "Clear Conversation" button.
ClearConversation ==
    /\ pc \in {"idle", "done"}
    /\ conversation_history' = <<>>
    /\ tool_outputs' = <<>>
    /\ pc' = "idle"
    /\ messages' = <<>>
    /\ UNCHANGED <<today_info, step, error, inputs>>
    /\ UNCHANGED toolVars

\* The backend contents the turns start from.
TurnStores == {<<>>, <<RawEvent("date", 0, DayTicks, "standup", TRUE)>>}

Init ==
    /\ now = 0
    /\ store \in TurnStores
    /\ op = NoCall
    /\ out = NoOut
    /\ calls = <<>>
    /\ workers = <<>>
    /\ InitTurn

Next ==
    \/ UserInput
    \/ provide_today_info
    \/ inject_additional_system_message
    \/ call_llm_model
    \/ tool_node
    \/ GraphRecursionError
    \/ FinishTurn
    \/ FailTurn
    \/ ClearConversation

Spec == Init /\ [][Next]_vars

----------------------------------------------------------------------------
(* The tools node at the grain of its threads. ToolNode runs the requests  *)
(* of a batch on an executor, a thread for each request, and the script of *)
(* every browser session runs its own turns, so the tools nodes of         *)
(* different sessions run side by side on the one backend.                 *)

MaxWorkers == 3         \* threads of tools nodes running at one time

Sessions == {"a", "b"}

\* A thread of a session's tools node: its request, how far it is
\* ("started", "inserting": its events().insert is at the backend, or
\* "returned") and what the tool returned.
Worker(session, call, state, o) ==
    [session |-> session, call |-> call, state |-> state, out |-> o]

\* A create_event_tool request that the validation rejects.
BadCreateCall ==
    ToolCall("create_event_tool",
             CreateArgs("review", IsoTime(2, 0), IsoTime(2, 0)))

DispatchBatches ==
    {b \in SeqsUpTo({ListCall, CreateCall, BadCreateCall}, 2) : b # <<>>}

\* The call reaches calendar_service.events().insert(...).execute().
sends_insert(call, clock, st) ==
    LET r == run_tool(call, clock, st)
    IN  \E k \in DOMAIN r.calls : r.calls[k].api = "insert"

\* The tools node of a session starts a thread for every request of the
\* last message.
Dispatch ==
    /\ Len(store) < MaxCreated
    /\ \E s \in Sessions, batch \in DispatchBatches :
          /\ \A i \in DOMAIN workers : workers[i].session # s
          /\ Len(workers) + Len(batch) <= MaxWorkers
          /\ workers' = workers \o
                 [i \in DOMAIN batch |-> Worker(s, batch[i], "started", NoOut)]
    /\ UNCHANGED <<now, store, op, out, calls>>
    /\ UNCHANGED turnVars

\* A thread runs its tool: to the tool's return, or, in create_event_tool
\* with valid times, to the sending of the insert.
BeginCall ==
    /\ \E i \in DOMAIN workers :
          /\ workers[i].state = "started"
          /\ workers' =
                 [workers EXCEPT ![i] =
                     IF sends_insert(workers[i].call, now, store)
                     THEN [@ EXCEPT !.state = "inserting"]
                     ELSE [@ EXCEPT !.state = "returned",
                                    !.out = run_tool(workers[i].call, now, store).out]]
    /\ UNCHANGED <<now, store, op, out, calls>>
    /\ UNCHANGED turnVars

\* The backend answers the insert of a thread and create_event_tool
\* returns.
EndInsert ==
    /\ \E i \in DOMAIN workers, backendOk \in BOOLEAN :
          /\ workers[i].state = "inserting"
          /\ LET c == workers[i].call
                 r == create_event_tool(c.args.summary, c.args.start_time,
                                        c.args.end_time, now, store, backendOk)
             IN  /\ store' = r.store
                 /\ workers' = [workers EXCEPT ![i].state = "returned",
                                               ![i].out = r.out]
    /\ UNCHANGED <<now, op, out, calls>>
    /\ UNCHANGED turnVars

\* The tools node of a session has the results of all its threads.
Collect ==
    /\ \E s \in Sessions :
          /\ \E i \in DOMAIN workers : workers[i].session = s
          /\ \A i \in DOMAIN workers :
                workers[i].session = s => workers[i].state = "returned"
          /\ workers' = SelectSeq(workers, LAMBDA w : w.session # s)
    /\ UNCHANGED <<now, store, op, out, calls>>
    /\ UNCHANGED turnVars

InitDispatch ==
    /\ now = 0
    /\ store = <<>>
    /\ op = NoCall
    /\ out = NoOut
    /\ calls = <<>>
    /\ workers = <<>>
    /\ InitTurn

NextDispatch == Dispatch \/ BeginCall \/ EndInsert \/ Collect

SpecDispatch == InitDispatch /\ [][NextDispatch]_vars

----------------------------------------------------------------------------
(* Properties of create_event_tool, under SpecCreate. *)

IsCreate(c) ==
    /\ c.name = "create_event_tool"
    /\ c.args.start_time.ok
    /\ c.args.end_time.ok

\* The instant an ISO string names.
Instant(text) == text.wall - text.off

HasInsert(cs) == \E i \in DOMAIN cs : cs[i].api = "insert"

\* C1: a call of create_event_tool with end <= start returns the
\* "End time must be after start time" error (InvalidInterval), also when
\* start is in the past; one with end > start and start < now returns the
\* "Cannot create events in the past" error (PastEvent); in both cases no
\* insert is sent to the backend and the backend's content is unchanged.
C1_ValidationBeforeInsert ==
    [][IsCreate(op') =>
        LET start == Instant(op'.args.start_time)
            end == Instant(op'.args.end_time)
        IN  /\ end <= start =>
                /\ out' = Out("error", ErrEndBeforeStart, <<>>)
                /\ ~HasInsert(calls')
                /\ store' = store
            /\ (end > start /\ start < now) =>
                /\ out' = Out("error", ErrPast, <<>>)
                /\ ~HasInsert(calls')
                /\ store' = store]_vars

\* A call with end <= start and start < now has returned InvalidInterval.
C1_Witness ==
    /\ IsCreate(op)
    /\ Instant(op.args.end_time) <= Instant(op.args.start_time)
    /\ Instant(op.args.start_time) < now
    /\ out = Out("error", ErrEndBeforeStart, <<>>)

\* C2: one call of create_event_tool sends at most one insert; when that
\* insert fails the call returns an error and the backend's content is
\* what it was before the call.
C2_NoRetry ==
    [][op'.name = "create_event_tool" =>
        /\ Cardinality({i \in DOMAIN calls' : calls'[i].api = "insert"}) <= 1
        /\ (\E i \in DOMAIN calls' : calls'[i].api = "insert" /\ ~calls'[i].ok)
            => (out'.kind = "error" /\ store' = store)]_vars

\* A call whose insert failed has returned an error.
C2_Witness ==
    /\ op.name = "create_event_tool"
    /\ calls = <<Call("insert", FALSE, <<>>)>>
    /\ out.kind = "error"

----------------------------------------------------------------------------
(* Properties of find_available_slots_tool, under SpecSlots. *)

SlotsReturned == op.name = "find_available_slots_tool" /\ out.kind = "slots"

\* The call asked for a duration of at least one minute.
PositiveSlotsReturned == SlotsReturned /\ op.args >= 1

\* The events the backend answered the call with.
Fetched == calls[1].resp

\* Every request the call sent was answered without a failure.
BackendAnswered == \A i \in DOMAIN calls : calls[i].ok

overlaps(a, b) == a.start < b.end /\ b.start < a.end

\* C5: every returned slot lasts at least min_duration minutes (as an
\* interval and in its duration_minutes field), the slots are in ascending
\* order of start, and no two of them overlap.
C5_SlotsLongSortedDisjoint ==
    SlotsReturned =>
        /\ \A i \in DOMAIN out.items :
              /\ out.items[i].end - out.items[i].start >= op.args * TicksPerMinute
              /\ out.items[i].duration_minutes >= op.args
        /\ \A i \in DOMAIN out.items : \A j \in DOMAIN out.items :
              i < j => /\ out.items[i].start <= out.items[j].start
                       /\ ~overlaps(out.items[i], out.items[j])

\* Two slots were returned for a positive min_duration.
C5_Witness ==
    /\ SlotsReturned
    /\ op.args >= 1
    /\ Len(out.items) >= 2

\* C6: every slot returned for a positive min_duration lies in
\* [now, end of today].
C6_SlotsInsideWindow ==
    PositiveSlotsReturned =>
        \A i \in DOMAIN out.items :
            /\ out.items[i].start >= now
            /\ out.items[i].end <= end_of_day(now)

\* The ticks of the search window [now, end of today): tick t stands for
\* the instants of [t, t + 1).
WindowTicks == now..(end_of_day(now) - 1)

InSlot(t) == {i \in DOMAIN out.items :
                 out.items[i].start <= t /\ t + 1 <= out.items[i].end}

InEvent(t) == {i \in DOMAIN Fetched :
                  Fetched[i].start <= t /\ t + 1 <= Fetched[i].end}

\* The free gap of the window around an instant that is in no event.
GapStart(t) ==
    LET ends == {now} \cup {Fetched[i].end : i \in DOMAIN Fetched}
    IN  CHOOSE e \in ends : e <= t /\ \A f \in ends : f <= t => f <= e

GapEnd(t) ==
    LET starts == {end_of_day(now)} \cup {Fetched[i].start : i \in DOMAIN Fetched}
    IN  CHOOSE b \in starts : b > t /\ \A f \in starts : f > t => b <= f

\* No free gap of the window lasts exactly min_duration: the calls on
\* which > and >= in the sweep's comparison agree.
NoExactGap ==
    \A t \in WindowTicks :
        InEvent(t) = {} => GapEnd(t) - GapStart(t) # op.args * TicksPerMinute

Cursor(i) ==
    LET ends == {now} \cup {Fetched[j].end : j \in 1..(i - 1)}
    IN  CHOOSE e \in ends : \A f \in ends : f <= e

\* C8: for a positive min_duration the slot [cursor, event.start) is
\* returned whenever event.start - cursor >= min_duration, and the trailing
\* slot [cursor, end of today) whenever end of today - cursor >= min_duration.
C8_EmitWhenAtLeast ==
    PositiveSlotsReturned =>
        /\ \A i \in DOMAIN Fetched :
              Fetched[i].start - Cursor(i) >= op.args * TicksPerMinute
              => \E k \in DOMAIN out.items :
                    /\ out.items[k].start = Cursor(i)
                    /\ out.items[k].end = Fetched[i].start
        /\ end_of_day(now) - Cursor(Len(Fetched) + 1) >= op.args * TicksPerMinute
              => \E k \in DOMAIN out.items :
                    /\ out.items[k].start = Cursor(Len(Fetched) + 1)
                    /\ out.items[k].end = end_of_day(now)

\* C13: a call with min_duration <= 0 returns the InvalidDuration error
\* and no slots.
C13_InvalidDuration ==
    (/\ op.name = "find_available_slots_tool"
     /\ op.args <= 0
     /\ BackendAnswered)
    => out = Out("error", "InvalidDuration", <<>>)

\* C17, under SpecOrder: the slots returned for a positive min_duration
\* are those computed for the fetched events sorted by start, in whatever
\* order the backend has answered with them.
C17_OrderIndependent ==
    PositiveSlotsReturned =>
        out = available_slots(SortByStart(Fetched), op.args, now)

\* C18, under SpecCrowded: no slot returned for a positive min_duration
\* overlaps an event that the calendar holds at the call, however many
\* events it holds.
C18_SlotsAreFree ==
    PositiveSlotsReturned =>
        \A k \in DOMAIN out.items : \A i \in DOMAIN store :
            ~overlaps(out.items[k], store[i])

\* C14, for find_available_slots_tool and a positive min_duration: the
\* call never ends with an exception leaving the tool function; a backend
\* failure or a fetched event without a dateTime field is returned as an
\* error result.
C14_HandlerNeverRaises ==
    (op.name = "find_available_slots_tool" /\ op.args >= 1)
    => out.kind # "raise"

----------------------------------------------------------------------------
(* Properties of list_events_tool, under SpecList. *)

EventsReturned == op.name = "list_events_tool" /\ out.kind = "events"

SameKey(a, b) == a.kind = b.kind /\ a.start = b.start /\ a.summary = b.summary

\* The fetched entries that no earlier entry equals in (start, summary).
Firsts ==
    {i \in DOMAIN Fetched : \A j \in 1..(i - 1) : ~SameKey(Fetched[j], Fetched[i])}

\* The k-th smallest member of a set of numbers.
Kth(S, k) == CHOOSE n \in S : Cardinality({m \in S : m < n}) = k - 1

\* C9: the returned list holds no two events with the same
\* (start, summary); it is the fetched list with every entry removed that
\* repeats the pair of an earlier entry, the others in their fetched order.
C9_Deduplicated ==
    EventsReturned =>
        /\ Len(out.items) = Cardinality(Firsts)
        /\ \A k \in DOMAIN out.items :
              LET ev == Fetched[Kth(Firsts, k)]
              IN  out.items[k] =
                      [start |-> [kind |-> ev.kind, t |-> ev.start],
                       summary |-> ev.summary,
                       end |-> [kind |-> ev.kind, t |-> ev.end]]
        /\ \A a \in DOMAIN out.items : \A b \in DOMAIN out.items :
              (out.items[a].start = out.items[b].start
               /\ out.items[a].summary = out.items[b].summary) => a = b

\* The backend answered with two entries of one (start, summary) and
\* different ends, and one of them was dropped.
C9_Witness ==
    /\ EventsReturned
    /\ Len(out.items) < Len(Fetched)
    /\ \E i \in DOMAIN Fetched : \E j \in DOMAIN Fetched :
          i < j /\ SameKey(Fetched[i], Fetched[j]) /\ Fetched[i].end # Fetched[j].end

\* C10: a call whose timeMin >= timeMax, given or defaulted, returns the
\* InvalidRange error and sends nothing to the backend.
C10_InvalidRange ==
    (/\ op.name = "list_events_tool"
     /\ time_range(op.args, now).time_min.t >= time_range(op.args, now).time_max.t)
    => (out = Out("error", "InvalidRange", <<>>) /\ calls = <<>>)

\* C11: a call that the backend answers with no events returns the empty
\* list of events: a value of the kind of its non-empty results, not an
\* error and not a message text.
C11_EmptySequence ==
    (/\ op.name = "list_events_tool"
     /\ calls # <<>>
     /\ calls[1].ok
     /\ Fetched = <<>>)
    => out = Out("events", "", <<>>)

\* A query text that is not empty and not of the form
\* start_time=...&end_time=...: one without any '=', or one of key=value
\* pairs that has neither of the two keys.
Malformed(query) ==
    \/ query.kind = "noeq"
    \/ /\ query.kind = "kv"
       /\ ~query.start_time.has
       /\ ~query.end_time.has

\* C12: a call with a malformed query text returns the InvalidQueryFormat
\* error and sends nothing to the backend.
C12_InvalidQueryFormat ==
    (op.name = "list_events_tool" /\ Malformed(op.args) /\ BackendAnswered)
    => (out = Out("error", "InvalidQueryFormat", <<>>) /\ calls = <<>>)

----------------------------------------------------------------------------
(* Properties of the tools node's threads, under SpecDispatch. *)

\* The threads whose insert is at the backend.
InFlight == {i \in DOMAIN workers : workers[i].state = "inserting"}

\* C15: at any time at most one events().insert is in flight, among the
\* requests of one batch and among the tools nodes of different sessions.
C15_OneInsertInFlight == Cardinality(InFlight) <= 1

----------------------------------------------------------------------------
(* Properties of the turn, under Spec. *)

\* The Reason<->Dispatch round trips of the turn: the tool-call messages
\* that the tools node has answered.
RoundTrips ==
    Cardinality({i \in DOMAIN messages :
        /\ messages[i].role = "ai"
        /\ messages[i].tool_calls # <<>>
        /\ i < Len(messages)})

\* The tool invocations the turn has run.
Invocations == {i \in DOMAIN messages : messages[i].role = "tool"}

\* C3, its bound: a turn makes at most 6 round trips, also when the
\* Reasoner requests a tool at every step.
C3_SixRoundTrips == RoundTrips <= 6

IsPolicy(m) == m.role = "system" /\ m.content = SchedulingPolicy

\* The scheduling-policy messages among the graph's messages.
PolicyCount == Cardinality({i \in DOMAIN messages : IsPolicy(messages[i])})

\* The Reasoner has answered in this turn.
Reasoned == \E i \in DOMAIN messages : messages[i].role = "ai"

\* A node of the graph runs in this step.
NodeRuns == step' = step + 1

\* C16, the order of the first three nodes: a turn starts in
\* inject_today_info (SeedContext), which is followed by
\* inject_additional_message (InjectPolicy), which is followed by
\* process_input (Reason).
C16_SeedPolicyReason ==
    /\ (pc \in {"idle", "done"} /\ pc' \notin {"idle", "done"})
           => pc' = "inject_today_info"
    /\ (pc = "inject_today_info" /\ NodeRuns)
           => pc' = "inject_additional_message"
    /\ (pc = "inject_additional_message" /\ NodeRuns)
           => pc' = "process_input"

\* C16, the policy message: it is not among the messages before
\* InjectPolicy has run, and from then on it is among them exactly once;
\* it is there before the Reasoner's first answer.
C16_PolicyOnce ==
    /\ pc' \in {"inject_today_info", "inject_additional_message"}
           => PolicyCount' = 0 /\ ~Reasoned'
    /\ pc' \in {"process_input", "tools", "END"} => PolicyCount' = 1

\* C16, Dispatch: a step of the tools node is followed by process_input
\* (Reason).
C16_DispatchThenReason ==
    (pc = "tools" /\ NodeRuns) => pc' = "process_input"

\* C16, Done: the graph reaches END only by a step of process_input whose
\* message carries no tool calls.
C16_DoneFromReason ==
    (pc' = "END" /\ pc # "END") =>
        /\ pc = "process_input"
        /\ NodeRuns
        /\ messages' # messages
        /\ messages'[Len(messages')].role = "ai"
        /\ messages'[Len(messages')].tool_calls = <<>>

MessageRole(r) == IF r = "user" THEN "human" ELSE "ai"

\* C19: when the Reasoner is called, the messages it is given begin with
\* the session history, entry by entry in its order, each with its content
\* and its role (a user entry as a human message, an assistant entry as an
\* ai message); the messages of the current turn follow.
C19_FullHistory ==
    pc = "process_input" =>
        /\ Len(messages) >= Len(conversation_history)
        /\ \A i \in DOMAIN conversation_history :
              /\ messages[i].content = conversation_history[i].content
              /\ messages[i].role = MessageRole(conversation_history[i].role)

\* No turn is running.
TurnOver == pc \in {"idle", "done"}

\* The entries alternate user, assistant, beginning with a user entry.
WellPaired(h) ==
    \A i \in DOMAIN h : h[i].role = IF i % 2 = 1 THEN "user" ELSE "assistant"

\* h with one entry of the given role appended.
Appended(h, g, role) ==
    /\ Len(g) = Len(h) + 1
    /\ SubSeq(g, 1, Len(h)) = h
    /\ g[Len(g)].role = role

C4_TraceOfTurn ==
    (pc = "done" /\ error = "") => Len(tool_outputs) = Cardinality(Invocations)

====
